---- MODULE Spec2Model ----
(***************************************************************************)
(* Arunika Doll M2 firmware: the device controller (device.c), the main    *)
(* loop (main.c) and the audio, network, websocket and power subsystems    *)
(* it drives.  The firmware is single-threaded: every function below runs  *)
(* to completion before the next one starts, and delay_ms blocks the only  *)
(* thread.                                                                 *)
(***************************************************************************)
EXTENDS Integers, Sequences, FiniteSets, TLC

----------------------------------------------------------------------------
(* arunika.h *)

DeviceStates ==
    {"INIT", "CONNECTING", "CONNECTED", "RECORDING", "PROCESSING", "PLAYING",
     "IDLE", "ERROR"}

ARUNIKA_OK == 0
ARUNIKA_ERROR_INIT == -1
ARUNIKA_ERROR_CONFIG == -2
ARUNIKA_ERROR_NETWORK == -3
ARUNIKA_ERROR_AUDIO == -4
ARUNIKA_ERROR_WEBSOCKET == -5
ARUNIKA_ERROR_MEMORY == -6
ARUNIKA_ERROR_INVALID_PARAM == -8

MSG_TYPE_AI_RESPONSE == "ai_response"

----------------------------------------------------------------------------
(* Bounds and inputs *)

\* Largest value main's static sequence counter takes in the model.
MaxSeq == 3

\* power.c: the simulated drain period, in milliseconds.
DrainPeriodMs == 10000

\* power.c: the simulated battery level at start-up.
InitialBattery == 85

\* uint32_t values are kept as two 16-bit halves.
Half == 2 ^ 16

U32(hi, lo) == [hi |-> hi, lo |-> lo]

\* a - b in uint32_t arithmetic (wraps modulo 2^32).
Sub32(a, b) ==
    LET borrow == IF a.lo < b.lo THEN 1 ELSE 0
    IN  U32((a.hi - b.hi - borrow) % Half, (a.lo - b.lo) % Half)

\* d > c for a uint32_t d and a constant c below 2^16.
Gt32(d, c) == d.hi > 0 \/ d.lo > c

\* Values get_timestamp_ms() returns: 0, the drain period exactly, and
\* UINT32_MAX (the clock truncated to 32 bits wraps).
Timestamps == {U32(0, 0), U32(0, DrainPeriodMs), U32(Half - 1, Half - 1)}

\* Text of inbound frames handed to device_process_incoming_message: the
\* frames whose type is ai_response, and the others.
AiResponseMessages == {"{type:ai_response,data:AAAA}"}

OtherMessages ==
    {"{type:ping,ts:1}", "{type:pong,ts:1}", "{type:status}",
     "{type:ping,note:ai_response}"}

Messages == AiResponseMessages \cup OtherMessages

\* Longest byte sequence handed to base64_encode.
MaxInputLen == 3

\* Byte values of the inputs: NUL, 'f', 'o' and 0xFF.
Bytes == {0, 102, 111, 255}

ByteSeqs(n) == UNION {[1..k -> Bytes] : k \in 0..n}

\* Sizes of the output buffer handed to base64_encode: from none up to one
\* more than the longest input needs.
OutputLens == 0..(4 * ((MaxInputLen + 2) \div 3) + 2)

\* What a caller's buffer holds before the call writes to it.
PriorText == {"", "?"}
PriorBytes == {<<>>, <<0>>}

----------------------------------------------------------------------------
VARIABLES
    pc,                 \* main(): "boot", "wifi", "loop", "audio", "power",
                        \* "exit"; "harness" when the API is driven directly
    pending,            \* device_set_state calls the running handler still
                        \* has to make after its delay_ms
    current_state,      \* device.c
    audio_initialized,  \* audio.c
    is_recording,       \* audio.c
    network_initialized,\* network.c
    wifi_connected,     \* network.c
    websocket_connected,\* websocket.c
    power_initialized,  \* power.c
    battery_level,      \* power.c
    last_check,         \* power.c, static in power_get_battery_level
    sequence,           \* main.c, static in main
    \* history
    lastOp,             \* the operation that ran last, followed by the
                        \* message for a message handler and by the value
                        \* returned for the calls that return one
    trace,              \* the state the last handler started in, then every
                        \* state it set
    sent,               \* sequence numbers passed to
                        \* websocket_send_audio_chunk in the current recording
    sendResult,         \* <<r>> when websocket_send_audio_chunk returned r
                        \* in this iteration, <<>> when it was not called
    pressRun,           \* button presses in a row since a press in Idle
    linkUpSeen,         \* WiFi and channel have both been up at once
    downInRec,          \* "down": the channel dropped during Recording;
                        \* "ticked": a main-loop iteration completed since
    b64                 \* utils.c: the arguments of a base64_encode call,
                        \* then its result, then base64_decode's

devVars == <<current_state, pending>>
audioVars == <<audio_initialized, is_recording>>
netVars == <<network_initialized, wifi_connected>>
powerVars == <<power_initialized, battery_level, last_check>>

vars ==
    <<pc, pending, current_state, audio_initialized, is_recording,
      network_initialized, wifi_connected, websocket_connected,
      power_initialized, battery_level, last_check, sequence, lastOp, trace,
      sent, sendResult, pressRun, linkUpSeen, downInRec, b64>>

----------------------------------------------------------------------------
(* utils.c / libc *)

\* strstr(haystack, needle) != NULL
strstr(haystack, needle) ==
    \E i \in 1..(Len(haystack) - Len(needle) + 1) :
        SubSeq(haystack, i, i + Len(needle) - 1) = needle

base64_table ==
    "ABCDEFGHIJKLMNOPQRSTUVWXYZabcdefghijklmnopqrstuvwxyz0123456789+/"

\* base64_table[i]
TableChar(i) == SubSeq(base64_table, i + 1, i + 1)

\* The four characters the loop body writes for the octets at i, i+1, i+2
\* (0 for those past the end).
base64_group(input, i) ==
    LET octet(k) == IF k <= Len(input) THEN input[k] ELSE 0
        triple == octet(i) * (2 ^ 16) + octet(i + 1) * (2 ^ 8) + octet(i + 2)
    IN  TableChar((triple \div (2 ^ 18)) % 64)
            \o TableChar((triple \div (2 ^ 12)) % 64)
            \o TableChar((triple \div (2 ^ 6)) % 64)
            \o TableChar(triple % 64)

\* The loop of base64_encode from octet i on.
RECURSIVE base64_loop(_, _)
base64_loop(input, i) ==
    IF i > Len(input)
    THEN ""
    ELSE base64_group(input, i) \o base64_loop(input, i + 3)

\* Faulty variant of base64_padding: the outer % 3 is missing (C15).
base64_padding_no_wrap(input_len) == 3 - (input_len % 3)

\* The number of '=' the padding loop writes.
base64_padding(input_len) == (3 - (input_len % 3)) % 3

\* text with its last k characters overwritten by '='.
RECURSIVE PadTail(_, _)
PadTail(text, k) ==
    IF k = 0 \/ text = ""
    THEN text
    ELSE PadTail(SubSeq(text, 1, Len(text) - 1), k - 1) \o "="

\* output is the C string in the output buffer after the call: prior, what
\* the caller's buffer held, when nothing was written.
base64_encode(inputOk, input, outputOk, output_len, prior) ==
    IF ~inputOk \/ ~outputOk \/ Len(input) = 0
    THEN [ret |-> ARUNIKA_ERROR_INVALID_PARAM, output |-> prior]
    ELSE LET encoded_len == 4 * ((Len(input) + 2) \div 3)
         IN  IF output_len < encoded_len + 1
             THEN [ret |-> ARUNIKA_ERROR_MEMORY, output |-> prior]
             ELSE [ret |-> encoded_len,
                   output |-> PadTail(base64_loop(input, 1),
                                      base64_padding(Len(input)))]

\* The stub: not implemented, nothing is written to output.
base64_decode(inputOk, outputOk, prior) ==
    IF ~inputOk \/ ~outputOk
    THEN [ret |-> ARUNIKA_ERROR_INVALID_PARAM, output |-> prior]
    ELSE [ret |-> ARUNIKA_ERROR_INIT, output |-> prior]

----------------------------------------------------------------------------
(* config.c *)

config_load(configOk) ==
    IF ~configOk THEN ARUNIKA_ERROR_INVALID_PARAM ELSE ARUNIKA_OK

----------------------------------------------------------------------------
(* audio.c *)

audio_init == [ret |-> ARUNIKA_OK, audio_initialized |-> TRUE]

audio_start_recording(ai, rec) ==
    IF ~ai
    THEN [ret |-> ARUNIKA_ERROR_AUDIO, is_recording |-> rec]
    ELSE [ret |-> ARUNIKA_OK, is_recording |-> TRUE]

\* Faulty variant of audio_stop_recording: the flag is left set (C4).
audio_stop_recording_keeps_flag(rec) == [ret |-> ARUNIKA_OK, is_recording |-> rec]

audio_stop_recording(rec) ==
    IF ~rec
    THEN [ret |-> ARUNIKA_OK, is_recording |-> rec]
    ELSE [ret |-> ARUNIKA_OK, is_recording |-> FALSE]

audio_read_buffer(bufferOk, rec) ==
    IF ~bufferOk \/ ~rec THEN ARUNIKA_ERROR_INVALID_PARAM ELSE ARUNIKA_OK

----------------------------------------------------------------------------
(* network.c *)

network_init == [ret |-> ARUNIKA_OK, network_initialized |-> TRUE]

network_connect_wifi(ni, wifi, ssidOk, passwordOk) ==
    IF ~ni \/ ~ssidOk \/ ~passwordOk
    THEN [ret |-> ARUNIKA_ERROR_INVALID_PARAM, wifi_connected |-> wifi]
    ELSE [ret |-> ARUNIKA_OK, wifi_connected |-> TRUE]

network_disconnect_wifi(wifi) ==
    IF ~wifi
    THEN [ret |-> ARUNIKA_OK, wifi_connected |-> wifi]
    ELSE [ret |-> ARUNIKA_OK, wifi_connected |-> FALSE]

----------------------------------------------------------------------------
(* websocket.c *)

\* Faulty variant of websocket_connect: the attempt leaves the channel as it
\* was (C22).
websocket_connect_stays_down(ws, urlOk, pathOk) ==
    IF ~urlOk \/ ~pathOk
    THEN [ret |-> ARUNIKA_ERROR_INVALID_PARAM, websocket_connected |-> ws]
    ELSE [ret |-> ARUNIKA_OK, websocket_connected |-> ws]

websocket_connect(ws, urlOk, pathOk) ==
    IF ~urlOk \/ ~pathOk
    THEN [ret |-> ARUNIKA_ERROR_INVALID_PARAM, websocket_connected |-> ws]
    ELSE [ret |-> ARUNIKA_OK, websocket_connected |-> TRUE]

websocket_disconnect(ws) ==
    IF ~ws
    THEN [ret |-> ARUNIKA_OK, websocket_connected |-> ws]
    ELSE [ret |-> ARUNIKA_OK, websocket_connected |-> FALSE]

websocket_send_audio_chunk(bufferOk, ws) ==
    IF ~bufferOk \/ ~ws THEN ARUNIKA_ERROR_INVALID_PARAM ELSE ARUNIKA_OK

\* The stub reports that no message is available.
websocket_receive_message(bufferOk, bufferSize, ws) ==
    IF ~bufferOk \/ bufferSize = 0 \/ ~ws
    THEN ARUNIKA_ERROR_INVALID_PARAM
    ELSE 0

----------------------------------------------------------------------------
(* power.c *)

power_init == [ret |-> ARUNIKA_OK, power_initialized |-> TRUE]

\* Faulty variant of power_get_battery_level: the uint8_t level is
\* decremented without the test for 0 (C13).
power_get_battery_level_unguarded(pi, level, last, now) ==
    IF ~pi
    THEN [ret |-> 0, battery_level |-> level, last_check |-> last]
    ELSE IF Gt32(Sub32(now, last), DrainPeriodMs)
         THEN [ret |-> (level - 1) % 256, battery_level |-> (level - 1) % 256,
               last_check |-> now]
         ELSE [ret |-> level, battery_level |-> level, last_check |-> last]

\* now is what get_timestamp_ms() returns during the call.
power_get_battery_level(pi, level, last, now) ==
    IF ~pi
    THEN [ret |-> 0, battery_level |-> level, last_check |-> last]
    ELSE IF Gt32(Sub32(now, last), DrainPeriodMs)
         THEN LET drained == IF level > 0 THEN (level - 1) % 256 ELSE level
              IN  [ret |-> drained, battery_level |-> drained,
                   last_check |-> now]
         ELSE [ret |-> level, battery_level |-> level, last_check |-> last]

----------------------------------------------------------------------------
(* device.c *)

\* Faulty variant of device_set_state: Error cannot be left (C14).
device_set_state_sticky_error(st, state) ==
    IF st = "ERROR"
    THEN [ret |-> ARUNIKA_ERROR_INVALID_PARAM, current_state |-> st]
    ELSE [ret |-> ARUNIKA_OK, current_state |-> state]

device_set_state(st, state) == [ret |-> ARUNIKA_OK, current_state |-> state]

device_get_state(st) == st

\* Faulty variant of device_init_from: a failure of network_init is noticed
\* only after power_init has been called (C21).
device_init_from_runs_on(st, ai, ni, pi, c, a, n, p) ==
    LET same(code) ==
            [ret |-> code, current_state |-> st, audio_initialized |-> ai,
             network_initialized |-> ni, power_initialized |-> pi]
    IN  IF c # ARUNIKA_OK
        THEN same(ARUNIKA_ERROR_CONFIG)
        ELSE IF a.ret # ARUNIKA_OK
        THEN [same(ARUNIKA_ERROR_AUDIO) EXCEPT
                 !.audio_initialized = a.audio_initialized]
        ELSE IF n.ret # ARUNIKA_OK
        THEN [same(ARUNIKA_ERROR_NETWORK) EXCEPT
                 !.audio_initialized = a.audio_initialized,
                 !.network_initialized = n.network_initialized,
                 !.power_initialized = p.power_initialized]
        ELSE IF p.ret # ARUNIKA_OK
        THEN [same(ARUNIKA_ERROR_INIT) EXCEPT
                 !.audio_initialized = a.audio_initialized,
                 !.network_initialized = n.network_initialized,
                 !.power_initialized = p.power_initialized]
        ELSE [ret |-> ARUNIKA_OK,
              current_state |-> device_set_state(st, "IDLE").current_state,
              audio_initialized |-> a.audio_initialized,
              network_initialized |-> n.network_initialized,
              power_initialized |-> p.power_initialized]

\* The body of device_init: c is what its call of config_load returns, a, n
\* and p what its calls of audio_init, network_init and power_init return
\* and leave in their flags.  A call that is not reached has no effect.
device_init_from(st, ai, ni, pi, c, a, n, p) ==
    LET same(code) ==
            [ret |-> code, current_state |-> st, audio_initialized |-> ai,
             network_initialized |-> ni, power_initialized |-> pi]
    IN  IF c # ARUNIKA_OK
        THEN same(ARUNIKA_ERROR_CONFIG)
        ELSE IF a.ret # ARUNIKA_OK
        THEN [same(ARUNIKA_ERROR_AUDIO) EXCEPT
                 !.audio_initialized = a.audio_initialized]
        ELSE IF n.ret # ARUNIKA_OK
        THEN [same(ARUNIKA_ERROR_NETWORK) EXCEPT
                 !.audio_initialized = a.audio_initialized,
                 !.network_initialized = n.network_initialized]
        ELSE IF p.ret # ARUNIKA_OK
        THEN [same(ARUNIKA_ERROR_INIT) EXCEPT
                 !.audio_initialized = a.audio_initialized,
                 !.network_initialized = n.network_initialized,
                 !.power_initialized = p.power_initialized]
        ELSE [ret |-> ARUNIKA_OK,
              current_state |-> device_set_state(st, "IDLE").current_state,
              audio_initialized |-> a.audio_initialized,
              network_initialized |-> n.network_initialized,
              power_initialized |-> p.power_initialized]

\* device_init() as built: with the initialisers of config.c, audio.c,
\* network.c and power.c.
device_init(st, ai, ni, pi) ==
    device_init_from(st, ai, ni, pi, config_load(TRUE), audio_init,
                     network_init, power_init)

\* What the four calls of device_init can give it.  The initialisers in the
\* source always succeed; each set adds a failing one, which returns an
\* error and leaves its flag as it was.
ConfigLoadOutcomes == {config_load(TRUE), config_load(FALSE)}
AudioInitOutcomes(ai) ==
    {audio_init, [ret |-> ARUNIKA_ERROR_AUDIO, audio_initialized |-> ai]}
NetworkInitOutcomes(ni) ==
    {network_init, [ret |-> ARUNIKA_ERROR_NETWORK, network_initialized |-> ni]}
PowerInitOutcomes(pi) ==
    {power_init, [ret |-> ARUNIKA_ERROR_INIT, power_initialized |-> pi]}

\* Faulty variant of device_handle_button_press: every state but Idle is
\* handled as Recording is (C20).
device_handle_button_press_any_state(st, ai, rec) ==
    IF st = "IDLE"
    THEN LET start == audio_start_recording(ai, rec)
         IN  [ret |-> ARUNIKA_OK,
              current_state |->
                  IF start.ret = ARUNIKA_OK
                  THEN device_set_state(st, "RECORDING").current_state
                  ELSE st,
              is_recording |-> start.is_recording]
    ELSE [ret |-> ARUNIKA_OK,
          current_state |-> device_set_state(st, "PROCESSING").current_state,
          is_recording |-> audio_stop_recording(rec).is_recording]

device_handle_button_press(st, ai, rec) ==
    IF st = "IDLE"
    THEN LET start == audio_start_recording(ai, rec)
         IN  [ret |-> ARUNIKA_OK,
              current_state |->
                  IF start.ret = ARUNIKA_OK
                  THEN device_set_state(st, "RECORDING").current_state
                  ELSE st,
              is_recording |-> start.is_recording]
    ELSE IF st = "RECORDING"
    THEN [ret |-> ARUNIKA_OK,
          current_state |-> device_set_state(st, "PROCESSING").current_state,
          is_recording |-> audio_stop_recording(rec).is_recording]
    ELSE [ret |-> ARUNIKA_OK, current_state |-> st, is_recording |-> rec]

\* Faulty variant of device_process_incoming_message: the return to Idle
\* after playback is missing (C8).
device_process_incoming_message_stays_playing(message) ==
    IF strstr(message, MSG_TYPE_AI_RESPONSE) THEN <<"PLAYING">> ELSE <<>>

\* The device_set_state calls the handler makes for a message, in order;
\* delay_ms(2000) separates the first from the second.
device_process_incoming_message(message) ==
    IF strstr(message, MSG_TYPE_AI_RESPONSE)
    THEN <<"PLAYING", "IDLE">>
    ELSE <<>>

----------------------------------------------------------------------------
(* main.c *)

\* Faulty variant of main_audio: the device state is not looked at (C3).
main_audio_any_state(st, rec, ws, seq) ==
    IF audio_read_buffer(TRUE, rec) = ARUNIKA_OK
    THEN [called |-> TRUE, arg |-> seq,
          result |-> <<websocket_send_audio_chunk(TRUE, ws)>>,
          sequence |-> seq + 1]
    ELSE [called |-> FALSE, arg |-> seq, result |-> <<>>, sequence |-> seq]

\* main.c, "Handle audio recording": what one pass through the block does.
\* called: websocket_send_audio_chunk was called, with sequence number arg,
\* and returned result; sequence is the counter afterwards.
main_audio(st, rec, ws, seq) ==
    IF st = "RECORDING" /\ audio_read_buffer(TRUE, rec) = ARUNIKA_OK
    THEN [called |-> TRUE, arg |-> seq,
          result |-> <<websocket_send_audio_chunk(TRUE, ws)>>,
          sequence |-> seq + 1]
    ELSE [called |-> FALSE, arg |-> seq, result |-> <<>>, sequence |-> seq]

----------------------------------------------------------------------------
InitAt(start) ==
    /\ pc = start
    /\ pending = <<>>
    /\ current_state = "INIT"
    /\ audio_initialized = FALSE
    /\ is_recording = FALSE
    /\ network_initialized = FALSE
    /\ wifi_connected = FALSE
    /\ websocket_connected = FALSE
    /\ power_initialized = FALSE
    /\ battery_level = InitialBattery
    /\ last_check = U32(0, 0)
    /\ sequence = 0
    /\ lastOp = <<"none">>
    /\ trace = <<>>
    /\ sent = <<>>
    /\ sendResult = <<>>
    /\ pressRun = 0
    /\ linkUpSeen = FALSE
    /\ downInRec = "none"

\* The firmware image: main() is about to run.
Init == InitAt("boot") /\ b64 = [phase |-> "idle"]

\* No handler is inside its delay_ms, and main is at the top of its loop,
\* where it looks at its event sources (or the API is driven directly).
Ready == pending = <<>> /\ pc \in {"loop", "harness"}

\* device_process_incoming_message(m) up to its delay_ms, or to its return
\* when it makes no state change.
HandleMessage(m) ==
    LET writes == device_process_incoming_message(m)
    IN  /\ current_state' = IF writes = <<>> THEN current_state ELSE Head(writes)
        /\ pending' = IF writes = <<>> THEN <<>> ELSE Tail(writes)
        /\ trace' = IF writes = <<>>
                    THEN <<current_state>>
                    ELSE <<current_state, Head(writes)>>

----------------------------------------------------------------------------
(* main() *)

\* main.c: device_init() and the exit when it fails, for given results of
\* the four calls device_init makes.
MainInitWith(c, a, n, p) ==
    /\ pc = "boot"
    /\ LET r == device_init_from(current_state, audio_initialized,
                                 network_initialized, power_initialized,
                                 c, a, n, p)
       IN  /\ current_state' = r.current_state
           /\ audio_initialized' = r.audio_initialized
           /\ network_initialized' = r.network_initialized
           /\ power_initialized' = r.power_initialized
           /\ trace' = IF r.current_state # current_state
                       THEN <<current_state, r.current_state>>
                       ELSE <<current_state>>
           /\ pc' = IF r.ret # ARUNIKA_OK THEN "exit" ELSE "wifi"
           /\ lastOp' = <<"device_init", r.ret, <<c, a.ret, n.ret, p.ret>>>>
    /\ UNCHANGED <<b64, pending, is_recording, wifi_connected, websocket_connected,
                   battery_level, last_check, sequence, sent, sendResult,
                   pressRun, linkUpSeen, downInRec>>

\* main.c: device_init() as built.
MainInit ==
    MainInitWith(config_load(TRUE), audio_init, network_init, power_init)

\* main.c: device_init() with subsystem initialisers that may fail.
MainInitFallible ==
    \E c \in ConfigLoadOutcomes, a \in AudioInitOutcomes(audio_initialized),
       n \in NetworkInitOutcomes(network_initialized),
       p \in PowerInitOutcomes(power_initialized) :
        MainInitWith(c, a, n, p)

\* main.c: config_load, network_connect_wifi and the exit when it fails.
MainConnectWifi ==
    /\ pc = "wifi"
    /\ LET r == network_connect_wifi(network_initialized, wifi_connected,
                                     config_load(TRUE) = ARUNIKA_OK,
                                     config_load(TRUE) = ARUNIKA_OK)
       IN  /\ wifi_connected' = r.wifi_connected
           /\ linkUpSeen' = (linkUpSeen \/ (r.wifi_connected /\ websocket_connected))
           /\ pc' = IF r.ret # ARUNIKA_OK THEN "exit" ELSE "loop"
    /\ lastOp' = <<"connect_wifi">>
    /\ UNCHANGED <<b64, devVars, audioVars, network_initialized, websocket_connected,
                   powerVars, sequence, trace, sent, sendResult, pressRun,
                   downInRec>>

\* main.c, "Handle WebSocket messages": receive and dispatch when the channel
\* is up, one connection attempt when it is not.
MainPoll ==
    /\ pc = "loop"
    /\ pending = <<>>
    /\ IF websocket_connected
       THEN /\ IF websocket_receive_message(TRUE, 1024, websocket_connected) > 0
               THEN \E m \in Messages :
                        HandleMessage(m) /\ lastOp' = <<"message", m>>
               ELSE UNCHANGED <<devVars, trace>> /\ lastOp' = <<"poll">>
            /\ UNCHANGED <<websocket_connected, linkUpSeen>>
       ELSE LET r == websocket_connect(websocket_connected, TRUE, TRUE)
            IN  /\ websocket_connected' = r.websocket_connected
                /\ linkUpSeen' = (linkUpSeen \/ (wifi_connected /\ r.websocket_connected))
                /\ UNCHANGED <<devVars, trace>>
                /\ lastOp' = <<"connect", r.ret>>
    /\ pc' = "audio"
    /\ UNCHANGED <<b64, audioVars, netVars, powerVars, sequence, sent, sendResult,
                   pressRun, downInRec>>

\* main.c, "Handle audio recording".
MainAudio ==
    /\ pc = "audio"
    /\ pending = <<>>
    /\ LET r == main_audio(current_state, is_recording, websocket_connected,
                           sequence)
       IN  /\ r.sequence <= MaxSeq
           /\ sequence' = r.sequence
           /\ sendResult' = r.result
           /\ sent' = IF r.called THEN Append(sent, r.arg) ELSE sent
    /\ pc' = "power"
    /\ lastOp' = <<"audio">>
    /\ UNCHANGED <<b64, devVars, audioVars, netVars, websocket_connected, powerVars,
                   trace, pressRun, linkUpSeen, downInRec>>

\* main.c, "Power management" and the delay_ms(10) that ends the iteration.
MainPower ==
    /\ pc = "power"
    /\ pending = <<>>
    /\ \E now \in Timestamps :
          LET r == power_get_battery_level(power_initialized, battery_level,
                                           last_check, now)
          IN  /\ battery_level' = r.battery_level
              /\ last_check' = r.last_check
              /\ lastOp' = <<"power", r.ret>>
    /\ pc' = "loop"
    /\ sendResult' = <<>>
    /\ downInRec' = IF downInRec = "down" THEN "ticked" ELSE downInRec
    /\ UNCHANGED <<b64, devVars, audioVars, netVars, websocket_connected,
                   power_initialized, sequence, trace, sent, pressRun,
                   linkUpSeen>>

----------------------------------------------------------------------------
(* Event handlers *)

\* device_handle_button_press()
ButtonPress ==
    /\ Ready
    /\ LET r == device_handle_button_press(current_state, audio_initialized,
                                           is_recording)
       IN  /\ current_state' = r.current_state
           /\ is_recording' = r.is_recording
           /\ trace' = IF r.current_state # current_state
                       THEN <<current_state, r.current_state>>
                       ELSE <<current_state>>
           /\ sent' = IF r.current_state = "RECORDING" /\ current_state # "RECORDING"
                      THEN <<>>
                      ELSE sent
           /\ lastOp' = <<"button", r.ret>>
    /\ pressRun' = IF current_state = "IDLE" THEN 1
                   ELSE IF pressRun = 1 THEN 2 ELSE 0
    /\ downInRec' = "none"
    /\ UNCHANGED <<b64, pc, pending, audio_initialized, netVars, websocket_connected,
                   powerVars, sequence, sendResult, linkUpSeen>>

\* device_process_incoming_message(m) for a frame that arrived on the channel.
Inbound ==
    /\ Ready
    /\ pc = "harness" \/ websocket_connected
    /\ \E m \in Messages : HandleMessage(m) /\ lastOp' = <<"message", m>>
    /\ pressRun' = 0
    /\ downInRec' = "none"
    /\ UNCHANGED <<b64, pc, audioVars, netVars, websocket_connected, powerVars,
                   sequence, sent, sendResult, linkUpSeen>>

\* device_process_incoming_message after its delay_ms(2000).
PlaybackDone ==
    /\ pending # <<>>
    /\ current_state' = Head(pending)
    /\ pending' = Tail(pending)
    /\ trace' = Append(trace, Head(pending))
    /\ lastOp' = <<"playback", lastOp[2]>>
    /\ UNCHANGED <<b64, pc, audioVars, netVars, websocket_connected, powerVars,
                   sequence, sent, sendResult, pressRun, linkUpSeen, downInRec>>

\* websocket_disconnect(): the channel goes down.
LinkDown ==
    /\ Ready
    /\ websocket_connected' = websocket_disconnect(websocket_connected).websocket_connected
    /\ downInRec' = IF current_state = "RECORDING" /\ websocket_connected
                    THEN "down"
                    ELSE downInRec
    /\ lastOp' = <<"linkdown">>
    /\ UNCHANGED <<b64, pc, devVars, audioVars, netVars, powerVars, sequence, trace,
                   sent, sendResult, pressRun, linkUpSeen>>

----------------------------------------------------------------------------
(* The public API called directly, as tests/test_main.c does *)

\* device_init()
ApiDeviceInit ==
    /\ pc = "harness"
    /\ pending = <<>>
    /\ LET r == device_init(current_state, audio_initialized,
                            network_initialized, power_initialized)
       IN  /\ current_state' = r.current_state
           /\ audio_initialized' = r.audio_initialized
           /\ network_initialized' = r.network_initialized
           /\ power_initialized' = r.power_initialized
           /\ trace' = IF r.ret = ARUNIKA_OK
                       THEN <<current_state, r.current_state>>
                       ELSE <<current_state>>
           /\ lastOp' = <<"device_init", r.ret>>
    /\ pressRun' = 0
    /\ downInRec' = "none"
    /\ UNCHANGED <<b64, pc, pending, is_recording, wifi_connected,
                   websocket_connected, battery_level, last_check, sequence,
                   sent, sendResult, linkUpSeen>>

\* device_set_state(s)
ApiSetState ==
    /\ pc = "harness"
    /\ pending = <<>>
    /\ \E s \in DeviceStates :
          LET r == device_set_state(current_state, s)
          IN  /\ current_state' = r.current_state
              /\ trace' = <<current_state, s>>
              /\ lastOp' = <<"set_state", r.ret>>
    /\ pressRun' = 0
    /\ downInRec' = "none"
    /\ UNCHANGED <<b64, pc, pending, audioVars, netVars, websocket_connected,
                   powerVars, sequence, sent, sendResult, linkUpSeen>>

\* websocket_connect(url, port, path), the pointers NULL or not
ApiWebsocketConnect ==
    /\ pc = "harness"
    /\ pending = <<>>
    /\ \E urlOk \in BOOLEAN, pathOk \in BOOLEAN :
          LET r == websocket_connect(websocket_connected, urlOk, pathOk)
          IN  /\ websocket_connected' = r.websocket_connected
              /\ linkUpSeen' = (linkUpSeen \/ (wifi_connected /\ r.websocket_connected))
    /\ lastOp' = <<"websocket_connect">>
    /\ UNCHANGED <<b64, pc, devVars, audioVars, netVars, powerVars, sequence, trace,
                   sent, sendResult, pressRun, downInRec>>

\* network_connect_wifi(ssid, password), the pointers NULL or not
ApiNetworkConnectWifi ==
    /\ pc = "harness"
    /\ pending = <<>>
    /\ \E ssidOk \in BOOLEAN, passwordOk \in BOOLEAN :
          LET r == network_connect_wifi(network_initialized, wifi_connected,
                                        ssidOk, passwordOk)
          IN  /\ wifi_connected' = r.wifi_connected
              /\ linkUpSeen' = (linkUpSeen \/ (r.wifi_connected /\ websocket_connected))
              /\ lastOp' = <<"connect_wifi", r.ret>>
    /\ UNCHANGED <<b64, pc, devVars, audioVars, network_initialized,
                   websocket_connected, powerVars, sequence, trace, sent,
                   sendResult, pressRun, downInRec>>

\* network_disconnect_wifi()
ApiNetworkDisconnectWifi ==
    /\ pc = "harness"
    /\ pending = <<>>
    /\ LET r == network_disconnect_wifi(wifi_connected)
       IN  /\ wifi_connected' = r.wifi_connected
           /\ lastOp' = <<"disconnect_wifi", r.ret>>
    /\ UNCHANGED <<b64, pc, devVars, audioVars, network_initialized,
                   websocket_connected, powerVars, sequence, trace, sent,
                   sendResult, pressRun, linkUpSeen, downInRec>>

\* power_init()
ApiPowerInit ==
    /\ pc = "harness"
    /\ pending = <<>>
    /\ power_initialized' = power_init.power_initialized
    /\ lastOp' = <<"power_init", power_init.ret>>
    /\ UNCHANGED <<b64, pc, devVars, audioVars, netVars, websocket_connected,
                   battery_level, last_check, sequence, trace, sent,
                   sendResult, pressRun, linkUpSeen, downInRec>>

\* power_get_battery_level() at a time get_timestamp_ms() reports as now
ApiPowerGetBatteryLevel ==
    /\ pc = "harness"
    /\ pending = <<>>
    /\ \E now \in Timestamps :
          LET r == power_get_battery_level(power_initialized, battery_level,
                                           last_check, now)
          IN  /\ battery_level' = r.battery_level
              /\ last_check' = r.last_check
              /\ lastOp' = <<"battery", r.ret>>
    /\ UNCHANGED <<b64, pc, devVars, audioVars, netVars, websocket_connected,
                   power_initialized, sequence, trace, sent, sendResult,
                   pressRun, linkUpSeen, downInRec>>

----------------------------------------------------------------------------
MainThread == MainInit \/ MainConnectWifi \/ MainPoll \/ MainAudio \/ MainPower

Next == MainThread \/ ButtonPress \/ Inbound \/ PlaybackDone \/ LinkDown

\* The firmware: main() runs, and the handlers are called from the top of
\* its loop.
Spec == Init /\ [][Next]_vars

\* The main loop never stops of itself, and delay_ms returns.
FairSpec == Spec /\ WF_vars(MainThread) /\ WF_vars(PlaybackDone)

\* The firmware on hardware whose subsystems can fail to initialise.
NextInit ==
    \/ MainInitFallible
    \/ MainConnectWifi
    \/ MainPoll
    \/ MainAudio
    \/ MainPower
    \/ ButtonPress
    \/ LinkDown

SpecInit == Init /\ [][NextInit]_vars

InitApi == InitAt("harness") /\ b64 = [phase |-> "idle"]

NextApi ==
    \/ ApiDeviceInit \/ ApiSetState \/ ApiWebsocketConnect
    \/ ApiNetworkConnectWifi \/ ApiNetworkDisconnectWifi
    \/ ButtonPress \/ Inbound \/ PlaybackDone \/ LinkDown

\* The device and session API under a test harness: any call after any
\* other.
SpecApi == InitApi /\ [][NextApi]_vars

\* A caller about to encode: its input, its buffers and whether it passes
\* them or NULL.
InitB64 ==
    /\ InitAt("codec")
    /\ b64 \in [phase : {"input"}, inputOk : BOOLEAN,
                input : ByteSeqs(MaxInputLen), outputOk : BOOLEAN,
                output_len : OutputLens, prior : PriorText]

\* base64_encode(input, input_len, output, output_len)
B64Encode ==
    /\ pc = "codec"
    /\ b64.phase = "input"
    /\ b64' = [phase |-> "encoded", inputOk |-> b64.inputOk,
               input |-> b64.input, outputOk |-> b64.outputOk,
               output_len |-> b64.output_len,
               enc |-> base64_encode(b64.inputOk, b64.input, b64.outputOk,
                                     b64.output_len, b64.prior)]
    /\ lastOp' = <<"base64_encode">>
    /\ UNCHANGED <<pc, devVars, audioVars, netVars, websocket_connected,
                   powerVars, sequence, trace, sent, sendResult, pressRun,
                   linkUpSeen, downInRec>>

\* base64_decode(output of the encode call, a buffer as large as the input,
\* its size)
B64Decode ==
    /\ pc = "codec"
    /\ b64.phase = "encoded"
    /\ \E prior \in PriorBytes :
          b64' = [phase |-> "decoded", inputOk |-> b64.inputOk,
                  input |-> b64.input, outputOk |-> b64.outputOk,
                  output_len |-> b64.output_len, enc |-> b64.enc,
                  dec |-> base64_decode(b64.outputOk, TRUE, prior)]
    /\ lastOp' = <<"base64_decode">>
    /\ UNCHANGED <<pc, devVars, audioVars, netVars, websocket_connected,
                   powerVars, sequence, trace, sent, sendResult, pressRun,
                   linkUpSeen, downInRec>>

NextB64 == B64Encode \/ B64Decode

\* The codec under a test harness: one encode call, then a decode of what
\* it produced.
SpecB64 == InitB64 /\ [][NextB64]_vars

NextPower == ApiPowerInit \/ ApiPowerGetBatteryLevel

\* The power API under a test harness: power_get_battery_level called any
\* number of times, before and after power_init.
SpecPower == InitApi /\ [][NextPower]_vars

----------------------------------------------------------------------------
(* Properties *)

\* C1: the device never enters Recording while the channel is down: a step
\* that takes the device state to Recording is taken with the websocket
\* connected.
C1_RecordingOnlyWhenChannelUp ==
    [][(current_state # "RECORDING" /\ current_state' = "RECORDING")
          => websocket_connected']_vars

\* C2: the sequence numbers passed to websocket_send_audio_chunk during one
\* recording start at 0 and strictly increase, in the first recording and in
\* every later one.
C2_SequenceStartsAtZero ==
    sent # <<>> =>
        /\ sent[1] = 0
        /\ \A i \in 1..(Len(sent) - 1) : sent[i] < sent[i + 1]

\* C3: in a main-loop iteration websocket_send_audio_chunk returns OK only
\* if the device state is Recording and the websocket is connected.
C3_SendOnlyWhenRecordingAndUp ==
    (pc = "power" /\ sendResult = <<ARUNIKA_OK>>)
        => (current_state = "RECORDING" /\ websocket_connected)

C3_Witness == pc = "power" /\ sendResult = <<ARUNIKA_OK>>

\* C4: with audio initialised, a press in Idle starts capture and enters
\* Recording, and the press after it stops capture and enters Processing.
C4_PressToggles ==
    /\ (pressRun = 1 /\ audio_initialized)
          => (current_state = "RECORDING" /\ is_recording)
    /\ pressRun = 2 => (current_state = "PROCESSING" /\ ~is_recording)

C4_Witness == pressRun = 2 /\ current_state = "PROCESSING" /\ ~is_recording

\* C5: when the channel went down during Recording and a main-loop iteration
\* has completed since (with no button press or message in between), capture
\* is cancelled and the device is in Error.
C5_LinkDownCancelsCapture ==
    downInRec = "ticked" => (current_state = "ERROR" /\ ~is_recording)

\* C6: capture is active only while the device state is Recording.
C6_CaptureOnlyWhileRecording == is_recording => current_state = "RECORDING"

\* C7: the device is Idle only after the link has been up (WiFi associated and
\* channel connected).
C7_IdleOnlyAfterLinkUp == current_state = "IDLE" => linkUpSeen

\* C8: a handler called in Idle or Processing with an ai_response message
\* sets Playing, and after its delay sets Idle and returns: it passes through
\* Playing once and ends in Idle.
C8_AiResponsePlaysThenIdle ==
    (/\ lastOp[1] \in {"message", "playback"}
     /\ lastOp[2] \in AiResponseMessages
     /\ trace[1] \in {"IDLE", "PROCESSING"})
        => IF pending # <<>>
           THEN current_state = "PLAYING" /\ trace = <<trace[1], "PLAYING">>
           ELSE /\ lastOp[1] = "playback"
                /\ current_state = "IDLE"
                /\ trace = <<trace[1], "PLAYING", "IDLE">>

C8_Witness ==
    /\ lastOp[1] = "playback"
    /\ lastOp[2] \in AiResponseMessages
    /\ pending = <<>>
    /\ trace = <<"PROCESSING", "PLAYING", "IDLE">>

\* C9: a device in Processing eventually returns to Idle, whether or not an
\* ai_response arrives.
C9_ProcessingTimesOut == (current_state = "PROCESSING") ~> (current_state = "IDLE")

\* C10: no button press and no inbound message takes the device out of Error.
C10_ErrorIsTerminal ==
    [][(current_state = "ERROR" /\ lastOp'[1] \in {"button", "message", "playback"})
          => current_state' = "ERROR"]_vars

\* C11: when the main loop has observed a battery level below 5%, the
\* session is down at the end of that iteration: the websocket and the WiFi
\* are disconnected (and deep sleep has been requested).
C11_LowBatteryTearsDown ==
    (lastOp[1] = "power" /\ lastOp[2] < 5)
        => (~websocket_connected /\ ~wifi_connected)

\* C12: the channel is never up while the WiFi association is down.
C12_ChannelImpliesWifi == websocket_connected => wifi_connected

\* C13: every value power_get_battery_level returns is within 0..100, and
\* the stored level never wraps below 0.
C13_BatteryInRange ==
    /\ battery_level \in 0..100
    /\ lastOp[1] = "battery" => lastOp[2] \in 0..100

C13_Witness ==
    /\ lastOp = <<"battery", 0>>
    /\ power_initialized
    /\ battery_level = 0
    /\ last_check = U32(Half - 1, Half - 1)

\* C14: the state is Init before any operation, and device_set_state(s)
\* returns OK and makes s the state device_get_state returns, from any state.
C14_StateIsWhatWasSet ==
    /\ lastOp = <<"none">> => device_get_state(current_state) = "INIT"
    /\ lastOp[1] = "set_state"
          => (lastOp[2] = ARUNIKA_OK /\ device_get_state(current_state) = trace[2])

C14_Witness ==
    /\ lastOp[1] = "set_state"
    /\ trace = <<"ERROR", "IDLE">>
    /\ current_state = "IDLE"

----------------------------------------------------------------------------
(* Base64 as RFC 4648 defines it *)

Base64Alphabet ==
    "ABCDEFGHIJKLMNOPQRSTUVWXYZ" \o "abcdefghijklmnopqrstuvwxyz"
        \o "0123456789" \o "+/"

Sextet(v) == SubSeq(Base64Alphabet, v + 1, v + 1)

CeilDiv3(n) == IF n % 3 = 0 THEN n \div 3 ELSE n \div 3 + 1

RECURSIVE RefBase64(_)
RefBase64(x) ==
    IF Len(x) = 0 THEN ""
    ELSE IF Len(x) = 1
    THEN Sextet(x[1] \div 4) \o Sextet((x[1] % 4) * 16) \o "=="
    ELSE IF Len(x) = 2
    THEN Sextet(x[1] \div 4) \o Sextet((x[1] % 4) * 16 + x[2] \div 16)
             \o Sextet((x[2] % 16) * 4) \o "="
    ELSE Sextet(x[1] \div 4) \o Sextet((x[1] % 4) * 16 + x[2] \div 16)
             \o Sextet((x[2] % 16) * 4 + x[3] \div 64) \o Sextet(x[3] % 64)
             \o RefBase64(SubSeq(x, 4, Len(x)))

\* The call was made with non-NULL pointers and a buffer large enough for
\* the encoding of the input and its NUL.
B64ValidCall ==
    /\ b64.phase \in {"encoded", "decoded"}
    /\ b64.inputOk
    /\ b64.outputOk
    /\ b64.output_len >= 4 * CeilDiv3(Len(b64.input)) + 1

\* C15: for a non-empty input and a large enough buffer, base64_encode
\* returns 4*ceil(n/3) and writes the RFC 4648 encoding of the input, padded
\* with '='; "f", "fo" and "foo" give "Zg==", "Zm8=" and "Zm9v".
C15_EncodeIsBase64 ==
    (B64ValidCall /\ Len(b64.input) > 0)
        => /\ b64.enc.ret = 4 * CeilDiv3(Len(b64.input))
           /\ b64.enc.ret % 4 = 0
           /\ Len(b64.enc.output) = b64.enc.ret
           /\ b64.enc.output = RefBase64(b64.input)
           /\ b64.input = <<102>> => b64.enc.output = "Zg=="
           /\ b64.input = <<102, 111>> => b64.enc.output = "Zm8="
           /\ b64.input = <<102, 111, 111>> => b64.enc.output = "Zm9v"

C15_Witness ==
    /\ B64ValidCall
    /\ b64.input = <<102, 111, 111>>
    /\ b64.enc.output = "Zm9v"

\* C16: encoding the empty input with a valid buffer returns 0 and writes
\* the empty string.
C16_EncodeEmpty ==
    (B64ValidCall /\ Len(b64.input) = 0)
        => (b64.enc.ret = 0 /\ b64.enc.output = "")

\* C17: decoding what base64_encode produced succeeds and gives back the
\* input.
C17_RoundTrip ==
    (B64ValidCall /\ b64.phase = "decoded")
        => (b64.dec.ret >= 0 /\ b64.dec.output = b64.input)

\* C18: an iteration checks the link and handles an inbound message before
\* it captures audio and reads the battery last; when an ai_response was
\* handled in an iteration that began in Recording, the iteration sends no
\* chunk.
C18_MessageBeforeCapture ==
    /\ pc = "audio" => lastOp[1] \in {"poll", "connect", "message", "playback"}
    /\ pc = "power" => lastOp = <<"audio">>
    /\ (pc = "power" /\ trace = <<"RECORDING", "PLAYING", "IDLE">>)
           => sendResult = <<>>

C18_Witness ==
    /\ pc = "power"
    /\ trace = <<"RECORDING", "PLAYING", "IDLE">>
    /\ lastOp = <<"audio">>
    /\ is_recording
    /\ websocket_connected

\* C19: handling a message whose type is not ai_response changes neither
\* the state nor the recording flag, whatever its other fields hold.
C19_OtherMessagesIgnored ==
    [][(lastOp'[1] = "message" /\ lastOp'[2] \in OtherMessages)
          => (current_state' = current_state /\ is_recording' = is_recording)]_vars

\* C20: a button press returns OK; outside Idle and Recording it changes
\* neither the state nor the recording flag, and in Idle with audio not
\* initialised the state stays Idle and capture stays inactive.
C20_PressElsewhereIsNoOp ==
    [][lastOp'[1] = "button"
          => /\ lastOp'[2] = ARUNIKA_OK
             /\ current_state \notin {"IDLE", "RECORDING"}
                   => (current_state' = current_state
                       /\ is_recording' = is_recording)
             /\ (current_state = "IDLE" /\ ~audio_initialized)
                   => (current_state' = "IDLE" /\ ~is_recording')]_vars

C20_Witness ==
    /\ lastOp = <<"button", ARUNIKA_OK>>
    /\ trace = <<"ERROR">>
    /\ current_state = "ERROR"
    /\ is_recording

\* The code device_init returns when its four calls return rets.
FirstFailure(rets) ==
    IF rets[1] # ARUNIKA_OK THEN ARUNIKA_ERROR_CONFIG
    ELSE IF rets[2] # ARUNIKA_OK THEN ARUNIKA_ERROR_AUDIO
    ELSE IF rets[3] # ARUNIKA_OK THEN ARUNIKA_ERROR_NETWORK
    ELSE IF rets[4] # ARUNIKA_OK THEN ARUNIKA_ERROR_INIT
    ELSE ARUNIKA_OK

\* C21: device_init initialises config, audio, network and power in that
\* order; at the first failure it returns that step's error (Config, Audio,
\* Network, Init), the later subsystems are not initialised and the state
\* is still Init; the state is Idle only when all four succeed, and main
\* does not go on to its loop after a failed device_init.
C21_InitInOrder ==
    /\ (pc = "exit" /\ lastOp[1] = "device_init")
          => /\ lastOp[2] = FirstFailure(lastOp[3])
             /\ lastOp[2] # ARUNIKA_OK
             /\ current_state = "INIT"
             /\ lastOp[2] = ARUNIKA_ERROR_CONFIG
                   => (~audio_initialized /\ ~network_initialized
                       /\ ~power_initialized)
             /\ lastOp[2] = ARUNIKA_ERROR_AUDIO
                   => (~network_initialized /\ ~power_initialized)
             /\ lastOp[2] = ARUNIKA_ERROR_NETWORK
                   => (audio_initialized /\ ~power_initialized)
             /\ lastOp[2] = ARUNIKA_ERROR_INIT
                   => (audio_initialized /\ network_initialized)
    /\ (pc = "wifi" /\ lastOp[1] = "device_init")
          => /\ lastOp[2] = ARUNIKA_OK
             /\ lastOp[3] = <<ARUNIKA_OK, ARUNIKA_OK, ARUNIKA_OK, ARUNIKA_OK>>
             /\ current_state = "IDLE"
    /\ lastOp[1] = "device_init" => pc \in {"exit", "wifi"}
    /\ pc \in {"wifi", "loop", "audio", "power"}
          => (audio_initialized /\ network_initialized /\ power_initialized)
    /\ pc \in {"boot", "exit"} => current_state = "INIT"

C21_Witness ==
    /\ pc = "exit"
    /\ lastOp[1] = "device_init"
    /\ lastOp[2] = ARUNIKA_ERROR_NETWORK
    /\ audio_initialized
    /\ ~network_initialized
    /\ ~power_initialized
    /\ current_state = "INIT"

\* The first section of a main-loop iteration runs in this step.
IterationStarts == pc = "loop" /\ pc' = "audio"

\* C22: an iteration that finds the channel down makes one connection
\* attempt and polls no message, and the attempt leaves the device state as
\* it was; an iteration that finds it up makes none; no attempt is made
\* later in an iteration; and a channel that is down is eventually up.
C22_Reconnects ==
    /\ [][/\ (IterationStarts /\ ~websocket_connected)
                => /\ lastOp' = <<"connect", ARUNIKA_OK>>
                   /\ websocket_connected'
                   /\ current_state' = current_state
                   /\ pending' = pending
                   /\ is_recording' = is_recording
          /\ (IterationStarts /\ websocket_connected)
                => lastOp'[1] \in {"poll", "message"}
          /\ lastOp'[1] = "connect" => IterationStarts]_vars
    /\ (~websocket_connected) ~> websocket_connected

C22_Witness ==
    /\ lastOp = <<"connect", ARUNIKA_OK>>
    /\ pc = "audio"
    /\ websocket_connected
    /\ downInRec = "down"
    /\ current_state = "RECORDING"

====
